---- MODULE Spec2Model ----
(***************************************************************************)
(* Model of pkg/remoteclusters/cluster.go: the per-cluster lifecycle of a  *)
(* remote Istio cluster (Cluster.Reconcile, RemoveRemoteIstioComponents,   *)
(* Shutdown, GetRemoteConfig) called by concurrent goroutines.             *)
(*                                                                         *)
(* A panic unwinds the calling goroutine; the call is recorded with        *)
(* outcome "panicked".  Whether the caller recovers is outside this file,  *)
(* so the other goroutines are allowed to go on (a crashed process is a    *)
(* prefix of such a behaviour).                                            *)
(*                                                                         *)
(* c.remoteConfig and c.istioConfig are written by concurrent Reconcile    *)
(* calls without synchronisation; a pointer write is one step, so a reader *)
(* sees one of the values written.                                         *)
(*                                                                         *)
(* The namespace watch installed by initK8sInformers handles the events    *)
(* the informer delivers (WatchEvent, WatchEventMapped); its handler loads *)
(* c.remoteConfig twice, unordered against the store of line 165, and      *)
(* assigns nothing, so events are part of WatchSpec only.                  *)
(***************************************************************************)
EXTENDS Naturals, Sequences, FiniteSets

\* ------------------------------------------------------------------ bounds
\* goroutines calling into the Cluster
NumProcs == 2
\* calls begun in a behaviour of Spec
MaxCalls == 3
\* calls begun in a behaviour of LiveSpec
MaxLiveCalls == 2

Procs == 1..NumProcs

\* ------------------------------------------------------------------ values
Nil == "nil"

\* *istiov1beta1.RemoteIstio arguments of Reconcile (nil included)
RemoteCfgs == {Nil, "r1"}
\* *istiov1beta1.Istio arguments of Reconcile
IstioCfgs == {"g1"}

\* a nil error
NoErr == <<>>
\* the error an external collaborator returns
Cause == <<"cause">>
\* emperror.Wrap / emperror.Wrapf / errors.New: the message chain, outermost first
Wrap(e, msg) == <<msg>> \o e

CtxReconcileCRDs == "could not reconcile"
CtxInitClients == "could not init k8s clients"
CtxInitInformers == "could not init k8s informers"
CtxPipelineStep == "could not reconcile"

ReconcilerFuncsSwapped ==
    << "reconcileSignCert", "reconcileConfig", "reconcileCARootToNamespaces",
       "reconcileEnabledServices", "ReconcileEnabledServiceEndpoints",
       "reconcileComponents" >>
\* the pipeline, in the order Reconcile appends it
ReconcilerFuncs ==
    << "reconcileConfig", "reconcileSignCert", "reconcileCARootToNamespaces",
       "reconcileEnabledServices", "ReconcileEnabledServiceEndpoints",
       "reconcileComponents" >>

\* outcomes of client.Delete: deleted, IsNotFound, any other error
DeleteResults == {"ok", "notFound", "otherError"}

VARIABLES
    \* fields of Cluster
    remoteConfig, istioConfig, mgr, ctrlRuntimeClient, dynamicClient,
    stopClosed, initClient, initInformers,
    \* collaborators: the manager's cache, the managers created, the watches
    \* registered on the controller
    cacheSynced, mgrCount, watchCount,
    \* one goroutine per caller: where its Reconcile call is, the call's
    \* arguments, the pipeline functions it has called and the arguments the
    \* last of them received
    pc, argRemote, argIstio, ran, passed,
    \* the call that ended in the step just taken, if one did: what it was and
    \* how it ended
    last,
    \* history: calls begun; per call in flight, whether it began after
    \* Shutdown and whether it began before initClient was done; whether the
    \* closure of each Once failed
    calls, afterStop, beganFresh, clientInitFailed, informersInitFailed,
    \* the event the namespace watch handled last, and what it made of it
    event

clusterVars == << remoteConfig, istioConfig, mgr, ctrlRuntimeClient, dynamicClient,
                  stopClosed, initClient, initInformers >>
envVars == << cacheSynced, mgrCount, watchCount >>
callVars == << pc, argRemote, argIstio, ran, passed >>
histVars == << calls, afterStop, beganFresh, clientInitFailed, informersInitFailed >>
vars == << clusterVars, envVars, callVars, last, histVars, event >>

\* the record of a call that ended: op, outcome ("returned" or "panicked"),
\* the error returned (NoErr is nil), the phase that failed, the pipeline
\* functions called, the outcome of each Delete issued, the value returned by
\* GetRemoteConfig, the two history flags of a Reconcile call and, for a
\* Reconcile call that called pipeline functions, whether the last of them
\* received the arguments of the call
Ended(o, out, e, phase, r, d, g, as, bf, own) ==
    [ op |-> o, outcome |-> out, ret |-> e, phase |-> phase, ran |-> r,
      deletes |-> d, got |-> g, afterStop |-> as, beganFresh |-> bf,
      ownArgs |-> own ]

NoCall == Ended("none", "none", NoErr, "none", <<>>, <<>>, Nil, FALSE, FALSE, TRUE)

\* what the watch made of an event: its kind and object, the configuration
\* the handler loaded for the Name and the one it loaded for the Namespace,
\* whether the predicate let the event through, how far the handler is
\* ("mapping": between its two loads) or how it ended, and the requests it
\* enqueued
Handled(kind, obj, nameCfg, nsCfg, acc, out, reqs) ==
    [ kind |-> kind, obj |-> obj, nameCfg |-> nameCfg, nsCfg |-> nsCfg,
      accepted |-> acc, outcome |-> out, requests |-> reqs ]

NoEvent == Handled("none", Nil, Nil, Nil, FALSE, "none", <<>>)

\* NewCluster: a Cluster with an open stop channel, both sync.Once unused and
\* no manager, client or configuration
Init ==
    /\ remoteConfig = Nil
    /\ istioConfig = Nil
    /\ mgr = Nil
    /\ ctrlRuntimeClient = Nil
    /\ dynamicClient = Nil
    /\ stopClosed = FALSE
    /\ initClient = "fresh"
    /\ initInformers = "fresh"
    /\ cacheSynced = FALSE
    /\ mgrCount = 0
    /\ watchCount = 0
    /\ pc = [p \in Procs |-> "idle"]
    /\ argRemote = [p \in Procs |-> Nil]
    /\ argIstio = [p \in Procs |-> Nil]
    /\ ran = [p \in Procs |-> <<>>]
    /\ passed = [p \in Procs |-> <<>>]
    /\ last = NoCall
    /\ calls = 0
    /\ afterStop = [p \in Procs |-> FALSE]
    /\ beganFresh = [p \in Procs |-> FALSE]
    /\ clientInitFailed = FALSE
    /\ informersInitFailed = FALSE
    /\ event = NoEvent

\* ------------------------------------------------------------------ helpers

\* a call begins on goroutine p
Begin(p) ==
    /\ pc[p] = "idle"
    /\ calls < MaxCalls
    /\ calls' = calls + 1

StepArgsFromCluster(p) == << remoteConfig, argIstio[p] >>
\* the arguments of f(remoteConfig, istio) at line 193: the parameters of the
\* Reconcile call
StepArgs(p) == << argRemote[p], argIstio[p] >>

\* the Reconcile call of p ends: it returns e, or panics; r is what it ran
EndReconcile(p, out, e, phase, r) ==
    /\ pc' = [pc EXCEPT ![p] = "idle"]
    /\ argRemote' = [argRemote EXCEPT ![p] = Nil]
    /\ argIstio' = [argIstio EXCEPT ![p] = Nil]
    /\ ran' = [ran EXCEPT ![p] = <<>>]
    /\ passed' = [passed EXCEPT ![p] = <<>>]
    /\ afterStop' = [afterStop EXCEPT ![p] = FALSE]
    /\ beganFresh' = [beganFresh EXCEPT ![p] = FALSE]
    /\ last' = Ended("Reconcile", out, e, phase, r, <<>>, Nil,
                     afterStop[p], beganFresh[p],
                     r # <<>> => StepArgs(p) = << argRemote[p], argIstio[p] >>)

\* the Reconcile call of p goes on at label l
Goto(p, l) ==
    /\ pc' = [pc EXCEPT ![p] = l]
    /\ last' = NoCall
    /\ UNCHANGED << argRemote, argIstio, ran, passed, afterStop, beganFresh >>

OnceRearmedOnFailure(failed) == IF failed THEN "fresh" ELSE "done"
\* sync.Once after Do(f) has run f: done, whatever f did to the captured err
\* (and also when f panicked)
OnceAfterDo(failed) == "done"

\* the err a caller of Once.Do holds when Do did not run its closure: the
\* closure assigns the err of the goroutine that ran it, so this caller keeps
\* the nil of line 160
ErrAfterSkippedDo == NoErr

SyncWaitIgnoresStop == cacheSynced
\* WaitForCacheSync(c.stop) returns once the cache has synced or stop is closed
SyncWaitOver == cacheSynced \/ stopClosed

\* ------------------------------------------------------------------ Reconcile

RemoteConfigKeptOnceSet(ok, rc) == IF ok /\ remoteConfig = Nil THEN rc ELSE remoteConfig
RemoteConfigRecordedFirst(ok, rc) == rc
\* c.remoteConfig after lines 160-165 of a call with argument rc: line 165 is
\* reached only when reconcileCRDs returned nil, and then stores rc
RemoteConfigAfterCRDs(ok, rc) == IF ok THEN rc ELSE remoteConfig

\* Reconcile(rc, ic) is entered on goroutine p, line 155: the call is in
\* flight from here on, and waits in reconcileCRDs
ReconcileStartWith(p, rc, ic) ==
    /\ Begin(p)
    /\ pc' = [pc EXCEPT ![p] = "reconcileCRDs"]
    /\ argRemote' = [argRemote EXCEPT ![p] = rc]
    /\ argIstio' = [argIstio EXCEPT ![p] = ic]
    /\ afterStop' = [afterStop EXCEPT ![p] = stopClosed]
    /\ beganFresh' = [beganFresh EXCEPT ![p] = (initClient # "done")]
    /\ last' = NoCall
    /\ UNCHANGED << clusterVars, envVars, ran, passed, clientInitFailed,
                    informersInitFailed, event >>

\* a Reconcile call begins on goroutine p with a configuration of cfgs
ReconcileStartFrom(p, cfgs) ==
    \E rc \in cfgs, ic \in IstioCfgs : ReconcileStartWith(p, rc, ic)

ReconcileStart(p) == ReconcileStartFrom(p, RemoteCfgs)

\* lines 160-165: reconcileCRDs returns nil (ok) or an error; on an error the
\* call returns it wrapped, otherwise it records remoteConfig and goes on
ReconcileCRDsWith(p, ok) ==
    /\ pc[p] = "reconcileCRDs"
    /\ remoteConfig' = RemoteConfigAfterCRDs(ok, argRemote[p])
    /\ IF ok
         THEN Goto(p, "initClient")
         ELSE EndReconcile(p, "returned", Wrap(Cause, CtxReconcileCRDs),
                           "reconcileCRDs", <<>>)
    /\ UNCHANGED << istioConfig, mgr, ctrlRuntimeClient, dynamicClient, stopClosed,
                    initClient, initInformers, envVars, calls, clientInitFailed,
                    informersInitFailed, event >>

ReconcileCRDs(p) == \E ok \in BOOLEAN : ReconcileCRDsWith(p, ok)

\* c.initClient.Do, first caller: initK8SClients -> startManager up to the
\* start of the manager (lines 168-170, 135-139, 243-254)
InitClientRun(p) ==
    \E ok \in BOOLEAN :
        /\ pc[p] = "initClient"
        /\ initClient = "fresh"
        /\ IF ok
             THEN /\ mgr' = "mgr"
                  /\ mgrCount' = mgrCount + 1
                  /\ initClient' = "running"
                  /\ Goto(p, "waitForCacheSync")
                  /\ UNCHANGED clientInitFailed
             ELSE /\ initClient' = OnceAfterDo(TRUE)
                  /\ clientInitFailed' = TRUE
                  /\ EndReconcile(p, "returned",
                                  Wrap(Wrap(Cause, "could not create manager"),
                                       CtxInitClients), "initClient", <<>>)
                  /\ UNCHANGED << mgr, mgrCount >>
        /\ UNCHANGED << remoteConfig, istioConfig, ctrlRuntimeClient, dynamicClient,
                        stopClosed, initInformers, cacheSynced, watchCount,
                        calls, informersInitFailed, event >>

\* the rest of the closure: WaitForCacheSync returns (its result is dropped),
\* meshgateway.Add, the two clients (lines 256-258, 141-152, 171-173)
InitClientFinish(p) ==
    \E ok \in BOOLEAN :
        /\ pc[p] = "waitForCacheSync"
        /\ SyncWaitOver
        /\ ctrlRuntimeClient' = "client"
        /\ initClient' = OnceAfterDo(~ok)
        /\ IF ok
             THEN /\ dynamicClient' = "dynamic"
                  /\ Goto(p, "initInformers")
                  /\ UNCHANGED clientInitFailed
             ELSE /\ clientInitFailed' = TRUE
                  /\ EndReconcile(p, "returned",
                                  Wrap(Wrap(Cause, "could not get dynamic client"),
                                       CtxInitClients), "initClient", <<>>)
                  /\ UNCHANGED dynamicClient
        /\ UNCHANGED << remoteConfig, istioConfig, mgr, stopClosed, initInformers,
                        envVars, calls, informersInitFailed, event >>

\* c.initClient.Do when the Once is done: the closure is not run (a caller
\* that finds it running blocks until it is done), then line 171
InitClientSkip(p) ==
    /\ pc[p] = "initClient"
    /\ initClient = "done"
    /\ IF ErrAfterSkippedDo = NoErr
         THEN Goto(p, "initInformers")
         ELSE EndReconcile(p, "returned", Wrap(ErrAfterSkippedDo, CtxInitClients),
                           "initClient", <<>>)
    /\ UNCHANGED << clusterVars, envVars, calls, clientInitFailed,
                    informersInitFailed, event >>

\* the outcomes of GetInformerForKind and ctrl.Watch in initK8sInformers
InformerResults == {"ok", "noInformer", "watchFailed"}

\* what initK8sInformers finds before it calls out, lines 91-95 ("panic":
\* c.mgr.GetCache() on a nil manager)
InitK8sInformersEntry ==
    IF remoteConfig = Nil THEN <<"remoteconfig must be set">>
    ELSE IF mgr = Nil THEN <<"panic">>
    ELSE NoErr

\* what initK8sInformers returns once GetInformerForKind and ctrl.Watch have
\* answered, lines 95-132; c.remoteConfig is not read again
InitK8sInformers(res) ==
    IF res = "noInformer"
      THEN Wrap(Cause, "could not get informer for namespaces")
    ELSE IF res = "watchFailed"
      THEN Wrap(Cause, "could not set watcher for namespaces informer")
    ELSE NoErr

\* c.initInformers.Do, first caller: the Once is taken and initK8sInformers
\* runs up to its call of GetInformerForKind (lines 176, 91-95)
InitInformersRun(p) ==
    LET e == InitK8sInformersEntry IN
    /\ pc[p] = "initInformers"
    /\ initInformers = "fresh"
    /\ initInformers' = IF e = NoErr THEN "running" ELSE OnceAfterDo(TRUE)
    /\ informersInitFailed' = (e # NoErr)
    /\ IF e = NoErr THEN Goto(p, "getInformer")
       ELSE IF e = <<"panic">>
         THEN EndReconcile(p, "panicked", NoErr, "initInformers", <<>>)
       ELSE EndReconcile(p, "returned", Wrap(e, CtxInitInformers),
                         "initInformers", <<>>)
    /\ UNCHANGED << remoteConfig, istioConfig, mgr, ctrlRuntimeClient, dynamicClient,
                    stopClosed, initClient, cacheSynced, mgrCount, watchCount,
                    calls, clientInitFailed, event >>

\* GetInformerForKind answers and ctrl.Watch is called (lines 95-130): on an
\* error the closure returns, the Once is done and line 179 wraps the error;
\* otherwise ctrl.Watch has registered the handler and is about to return
InitInformersWatch(p) ==
    \E res \in InformerResults :
        LET e == InitK8sInformers(res) IN
        /\ pc[p] = "getInformer"
        /\ watchCount' = IF res # "noInformer" THEN watchCount + 1 ELSE watchCount
        /\ initInformers' = IF e = NoErr THEN initInformers ELSE OnceAfterDo(TRUE)
        /\ informersInitFailed' = (e # NoErr)
        /\ IF e = NoErr THEN Goto(p, "watchRegistered")
           ELSE EndReconcile(p, "returned", Wrap(e, CtxInitInformers),
                             "initInformers", <<>>)
        /\ UNCHANGED << remoteConfig, istioConfig, mgr, ctrlRuntimeClient, dynamicClient,
                        stopClosed, initClient, cacheSynced, mgrCount,
                        calls, clientInitFailed, event >>

\* ctrl.Watch and initK8sInformers return nil, the Once is done, line 179
\* finds no error (lines 128-132, 176-181)
InitInformersFinish(p) ==
    /\ pc[p] = "watchRegistered"
    /\ initInformers' = OnceAfterDo(FALSE)
    /\ Goto(p, "pipeline")
    /\ UNCHANGED << remoteConfig, istioConfig, mgr, ctrlRuntimeClient, dynamicClient,
                    stopClosed, initClient, cacheSynced, mgrCount, watchCount,
                    calls, clientInitFailed, informersInitFailed, event >>

\* c.initInformers.Do when the Once is done, then line 179
InitInformersSkip(p) ==
    /\ pc[p] = "initInformers"
    /\ initInformers = "done"
    /\ IF ErrAfterSkippedDo = NoErr
         THEN Goto(p, "pipeline")
         ELSE EndReconcile(p, "returned", Wrap(ErrAfterSkippedDo, CtxInitInformers),
                           "initInformers", <<>>)
    /\ UNCHANGED << clusterVars, envVars, calls, clientInitFailed,
                    informersInitFailed, event >>

\* ctrl.Watch of line 100 has returned nil: the namespace watch is installed
WatchInstalled == initInformers = "done" /\ ~informersInitFailed

\* the handler of lines 103-113 is registered with the informer: ctrl.Watch
\* registers it before it returns, so before the Once is done
HandlerRegistered == WatchInstalled \/ \E p \in Procs : pc[p] = "watchRegistered"

\* the step that records the mesh components as installed (c.istioConfig)
RecordsIstioConfig(step) == step = "reconcileComponents"

\* one turn of the loop of lines 192-196: the next function of ReconcilerFuncs
PipelineStep(p) ==
    \E ok \in BOOLEAN :
        LET k == Len(ran[p]) + 1
            f == ReconcilerFuncs[k]
        IN  /\ pc[p] = "pipeline"
            /\ IF ok /\ RecordsIstioConfig(f)
                 THEN istioConfig' = StepArgs(p)[2]
                 ELSE UNCHANGED istioConfig
            /\ IF ~ok
                 THEN EndReconcile(p, "returned", Wrap(Cause, CtxPipelineStep), f,
                                   Append(ran[p], f))
                 ELSE IF k = Len(ReconcilerFuncs)
                 THEN EndReconcile(p, "returned", NoErr, "none", Append(ran[p], f))
                 ELSE /\ ran' = [ran EXCEPT ![p] = Append(@, f)]
                      /\ passed' = [passed EXCEPT ![p] = StepArgs(p)]
                      /\ last' = NoCall
                      /\ UNCHANGED << pc, argRemote, argIstio, afterStop,
                                      beganFresh >>
            /\ UNCHANGED << remoteConfig, mgr, ctrlRuntimeClient, dynamicClient,
                            stopClosed, initClient, initInformers, envVars,
                            calls, clientInitFailed, informersInitFailed, event >>

\* the goroutine of line 252-254: the manager's cache completes its first sync
CacheSync ==
    /\ mgr # Nil
    /\ ~stopClosed
    /\ ~cacheSynced
    /\ cacheSynced' = TRUE
    /\ last' = NoCall
    /\ UNCHANGED << clusterVars, mgrCount, watchCount, callVars, histVars,
                    event >>

\* ------------------------------------------------------------------ the rest

RemoveResultPrimaryChecked(d1, d2) ==
    IF d1 = "notFound"
      THEN Wrap(Cause, "could not remove istio CRD from remote cluster")
      ELSE NoErr
\* what RemoveRemoteIstioComponents returns after its two Deletes, lines 211-221:
\* the Wrap of line 213 is dropped, and line 217 returns on IsNotFound only
RemoveResult(d1, d2) ==
    IF d2 = "notFound"
      THEN Wrap(Cause, "could not remove mesh gateway CRD from remote cluster")
      ELSE NoErr

NilCheckOnRemoteConfig == remoteConfig = Nil
\* the test of line 206: no mesh components are recorded as installed
NoComponentsInstalled == istioConfig = Nil

\* RemoveRemoteIstioComponents, lines 205-222; deletes records the outcome of
\* each Delete issued, the Istio resource first, the mesh gateway second
RemoveRemoteIstioComponents(p) ==
    \E d1 \in DeleteResults, d2 \in DeleteResults :
        /\ Begin(p)
        /\ last' =
             IF NoComponentsInstalled
               THEN Ended("RemoveRemoteIstioComponents", "returned", NoErr, "none",
                          <<>>, <<>>, Nil, FALSE, FALSE, TRUE)
             ELSE IF ctrlRuntimeClient = Nil
               THEN \* Delete on a nil client.Client
                    Ended("RemoveRemoteIstioComponents", "panicked", NoErr, "delete",
                          <<>>, <<>>, Nil, FALSE, FALSE, TRUE)
             ELSE Ended("RemoveRemoteIstioComponents", "returned", RemoveResult(d1, d2),
                        IF RemoveResult(d1, d2) = NoErr THEN "none" ELSE "delete",
                        <<>>, <<d1, d2>>, Nil, FALSE, FALSE, TRUE)
        /\ UNCHANGED << clusterVars, envVars, callVars, afterStop, beganFresh,
                        clientInitFailed, informersInitFailed, event >>

\* what close(c.stopper) does when the channel is already closed
CloseOfClosedChannel == "panicked"

\* Shutdown, lines 224-227: close(c.stopper)
Shutdown(p) ==
    /\ Begin(p)
    /\ last' = Ended("Shutdown",
                     IF stopClosed THEN CloseOfClosedChannel ELSE "returned",
                     NoErr, IF stopClosed THEN "close" ELSE "none",
                     <<>>, <<>>, Nil, FALSE, FALSE, TRUE)
    /\ stopClosed' = TRUE
    /\ UNCHANGED << remoteConfig, istioConfig, mgr, ctrlRuntimeClient, dynamicClient,
                    initClient, initInformers, envVars, callVars, afterStop,
                    beganFresh, clientInitFailed, informersInitFailed, event >>

\* GetRemoteConfig, lines 201-203
GetRemoteConfig(p) ==
    /\ Begin(p)
    /\ last' = Ended("GetRemoteConfig", "returned", NoErr, "none", <<>>, <<>>,
                     remoteConfig, FALSE, FALSE, TRUE)
    /\ UNCHANGED << clusterVars, envVars, callVars, afterStop, beganFresh,
                    clientInitFailed, informersInitFailed, event >>

\* ------------------------------------------------------------------ the watch

\* the events an informer delivers, and the namespaces they are about
EventKinds == {"Create", "Update", "Delete", "Generic"}
Namespaces == {"nsA", "nsB"}

\* predicate.Funcs of lines 113-126
NamespacePredicate(kind) ==
    IF kind = "Create" THEN TRUE
    ELSE IF kind = "Delete" THEN FALSE
    ELSE IF kind = "Generic" THEN FALSE
    ELSE \* Update
         FALSE

\* the configurations Reconcile is called with while the watch is observed:
\* two that are not nil, so that two loads of c.remoteConfig can differ
WatchRemoteCfgs == {Nil, "r1", "r2"}

\* the reconcile.Request of lines 105-110: Name is read from the RemoteIstio
\* loaded at line 107, Namespace from the one loaded at line 108
Request(nameCfg, nsCfg) ==
    [ Name |-> << nameCfg, "Name" >>, Namespace |-> << nsCfg, "Namespace" >> ]

\* the request that names the RemoteIstio cfg
RequestFor(cfg) == Request(cfg, cfg)

\* what handler.ToRequestsFunc of lines 103-112 returns
ToRequests(nameCfg, nsCfg) == << Request(nameCfg, nsCfg) >>

\* c.remoteConfig.Name (line 107) or c.remoteConfig.Namespace (line 108) on a
\* nil c.remoteConfig
ToRequestsPanics == remoteConfig = Nil

\* the installed watch takes up one event of the namespace informer: the
\* predicate first and, for what it lets through, the map function up to its
\* first load of c.remoteConfig (line 107)
WatchEvent ==
    \E kind \in EventKinds, obj \in Namespaces :
        /\ HandlerRegistered
        /\ ~stopClosed
        /\ event.outcome # "mapping"
        /\ event' =
             IF ~NamespacePredicate(kind)
               THEN Handled(kind, obj, Nil, Nil, FALSE, "dropped", <<>>)
             ELSE IF ToRequestsPanics
               THEN Handled(kind, obj, remoteConfig, Nil, TRUE, "panicked", <<>>)
             ELSE Handled(kind, obj, remoteConfig, Nil, TRUE, "mapping", <<>>)
        /\ last' = NoCall
        /\ UNCHANGED << clusterVars, envVars, callVars, histVars >>

\* the map function goes on: its second load of c.remoteConfig (line 108),
\* which nothing orders against the store of line 165, and its return
WatchEventMapped ==
    /\ event.outcome = "mapping"
    /\ event' =
         IF ToRequestsPanics
           THEN Handled(event.kind, event.obj, event.nameCfg, remoteConfig, TRUE,
                        "panicked", <<>>)
         ELSE Handled(event.kind, event.obj, event.nameCfg, remoteConfig, TRUE,
                      "enqueued", ToRequests(event.nameCfg, remoteConfig))
    /\ last' = NoCall
    /\ UNCHANGED << clusterVars, envVars, callVars, histVars >>

\* a step of the Reconcile call in flight on goroutine p
Progress(p) ==
    \/ ReconcileCRDs(p)
    \/ InitClientRun(p)
    \/ InitClientFinish(p)
    \/ InitClientSkip(p)
    \/ InitInformersRun(p)
    \/ InitInformersWatch(p)
    \/ InitInformersFinish(p)
    \/ InitInformersSkip(p)
    \/ PipelineStep(p)

Next ==
    \/ \E p \in Procs : ReconcileStart(p)
    \/ \E p \in Procs : ReconcileCRDs(p)
    \/ \E p \in Procs : InitClientRun(p)
    \/ \E p \in Procs : InitClientFinish(p)
    \/ \E p \in Procs : InitClientSkip(p)
    \/ \E p \in Procs : InitInformersRun(p)
    \/ \E p \in Procs : InitInformersWatch(p)
    \/ \E p \in Procs : InitInformersFinish(p)
    \/ \E p \in Procs : InitInformersSkip(p)
    \/ \E p \in Procs : PipelineStep(p)
    \/ \E p \in Procs : RemoveRemoteIstioComponents(p)
    \/ \E p \in Procs : Shutdown(p)
    \/ \E p \in Procs : GetRemoteConfig(p)
    \/ CacheSync

Spec == Init /\ [][Next]_vars

\* Next, with fewer calls begun
LiveNext ==
    \/ \E p \in Procs : calls < MaxLiveCalls /\ ReconcileStart(p)
    \/ \E p \in Procs : Progress(p)
    \/ \E p \in Procs : calls < MaxLiveCalls /\ RemoveRemoteIstioComponents(p)
    \/ \E p \in Procs : calls < MaxLiveCalls /\ Shutdown(p)
    \/ \E p \in Procs : calls < MaxLiveCalls /\ GetRemoteConfig(p)
    \/ CacheSync

\* the calls of LiveNext, with Reconcile called on WatchRemoteCfgs, and the
\* events handled by the watch.  The handler assigns nothing in the Cluster,
\* so Spec and LiveSpec leave the events out
WatchNext ==
    \/ \E p \in Procs : calls < MaxLiveCalls /\ ReconcileStartFrom(p, WatchRemoteCfgs)
    \/ \E p \in Procs : Progress(p)
    \/ \E p \in Procs : calls < MaxLiveCalls /\ RemoveRemoteIstioComponents(p)
    \/ \E p \in Procs : calls < MaxLiveCalls /\ Shutdown(p)
    \/ \E p \in Procs : calls < MaxLiveCalls /\ GetRemoteConfig(p)
    \/ CacheSync
    \/ WatchEvent
    \/ WatchEventMapped

WatchSpec == Init /\ [][WatchNext]_vars

\* a goroutine that can take a step of its call eventually takes it: the Go
\* scheduler runs every runnable goroutine.  Nothing makes a caller begin a
\* call, and nothing makes the cache sync.
LiveSpec == Init /\ [][LiveNext]_vars /\ \A p \in Procs : WF_vars(Progress(p))

\* ------------------------------------------------------------------ claims

\* C1: however many Reconcile calls run, in any interleaving, the manager is
\* created and started at most once and the namespace watch is registered on
\* the controller at most once.
C1_InitSideEffectsAtMostOnce == mgrCount <= 1 /\ watchCount <= 1

\* a Reconcile call that began when initClient was already done has returned
\* success, and each side effect has happened once
C1_Witness ==
    /\ mgrCount = 1
    /\ watchCount = 1
    /\ last.op = "Reconcile"
    /\ last.outcome = "returned"
    /\ last.ret = NoErr
    /\ ~last.beganFresh

\* C2: when the client initialization fails, every Reconcile call that was
\* running concurrently with it (it began before initClient was done) returns
\* the client-initialization error (unless its own reconcileCRDs failed
\* first), and none of them goes on to the watch initialization or the pipeline.
C2_ConcurrentCallersSeeInitFailure ==
    clientInitFailed =>
        /\ \A p \in Procs :
              beganFresh[p] => pc[p] \notin {"initInformers", "getInformer",
                                                "watchRegistered", "pipeline"}
        /\ (last.op = "Reconcile" /\ last.beganFresh)
              => last.phase \in {"reconcileCRDs", "initClient"}

\* C3: a failed client initialization (or watch initialization) leaves its
\* guard unconsumed, so that the next Reconcile call attempts it again.
C3_FailedInitIsRetried ==
    /\ clientInitFailed => initClient # "done"
    /\ informersInitFailed => initInformers # "done"

\* C4: every call of Shutdown returns normally, also a second one.
C4_ShutdownIdempotent ==
    last.op = "Shutdown" => last.outcome = "returned"

\* C5: a Reconcile call that begins after Shutdown executes no pipeline step.
C5_NoPipelineAfterShutdown ==
    /\ \A p \in Procs : afterStop[p] => (pc[p] # "pipeline" /\ ran[p] = <<>>)
    /\ (last.op = "Reconcile" /\ last.afterStop) => last.ran = <<>>

\* the lifecycle states of the spec, read off the two guards
ClientReady == initClient = "done" /\ ~clientInitFailed
WatchesReady == initInformers = "done" /\ ~informersInitFailed

\* C6: once Shutdown has closed the stop channel, the Cluster never becomes
\* ClientReady or WatchesReady: an initialization that ends after Shutdown fails.
C6_NoInitSucceedsAfterShutdown ==
    [][stopClosed => /\ (ClientReady' => ClientReady)
                     /\ (WatchesReady' => WatchesReady)]_vars

\* C7: Shutdown never waits (it is one step, enabled whatever the Reconcile
\* calls are doing), and every Reconcile call in flight when the stop channel
\* is closed, or begun after that, eventually ends (it returns, or it unwinds
\* with the panic of initK8sInformers): none stays blocked.
C7_ReconcileEndsAfterShutdown ==
    \A p \in Procs : (stopClosed /\ pc[p] # "idle") ~> (pc[p] = "idle")

\* Shutdown was called while a Reconcile call was blocked in WaitForCacheSync
\* on a cache that has not synced
C7_Witness ==
    /\ stopClosed
    /\ ~cacheSynced
    /\ \E p \in Procs : pc[p] = "waitForCacheSync"

\* C8: a Reconcile call past the initialization calls the pipeline functions
\* from the first one in the canonical order; when it returns nil it has
\* called all six, in order, once each; when function k fails it has called
\* exactly functions 1..k, in order, and returns an error.
C8_PipelineInOrder ==
    LET canon == << "reconcileConfig", "reconcileSignCert",
                    "reconcileCARootToNamespaces", "reconcileEnabledServices",
                    "ReconcileEnabledServiceEndpoints", "reconcileComponents" >>
        IsPrefix(s) == Len(s) <= Len(canon) /\ \A i \in 1..Len(s) : s[i] = canon[i]
    IN  /\ \A p \in Procs :
              /\ IsPrefix(ran[p])
              /\ Len(ran[p]) < Len(canon)
              /\ ran[p] # <<>> => pc[p] = "pipeline"
        /\ (last.op = "Reconcile" /\ last.outcome = "returned") =>
              /\ IsPrefix(last.ran)
              /\ last.ret = NoErr => last.ran = canon
              /\ (last.ran # <<>> /\ last.ret # NoErr)
                    => last.phase = last.ran[Len(last.ran)]
              /\ (last.ran # <<>> /\ last.ran # canon) => last.ret # NoErr

\* a Reconcile call has returned an error after its third pipeline function failed
C8_Witness ==
    /\ last.op = "Reconcile"
    /\ last.ret # NoErr
    /\ last.phase = "reconcileCARootToNamespaces"
    /\ Len(last.ran) = 3

\* the call that just ended is a Reconcile call that returned an error
ReconcileFailed(l) == l.op = "Reconcile" /\ l.outcome = "returned" /\ l.ret # NoErr

\* the errors Reconcile returns, lines 162, 172, 180 and 194: the context it
\* wraps the error with, and the phase that failed
ReconcileErrors ==
    { << CtxReconcileCRDs, "reconcileCRDs" >>,
      << CtxInitClients, "initClient" >>,
      << CtxInitInformers, "initInformers" >> }
    \cup { << CtxPipelineStep, ReconcilerFuncs[k] >> : k \in 1..Len(ReconcilerFuncs) }

\* C9: the context Reconcile wraps an error with identifies the
\* phase that failed, so no other phase (no other pipeline function, when a
\* pipeline function failed) returns an error with the same context.
C9_ContextIdentifiesPhase ==
    ReconcileFailed(last) =>
        /\ << Head(last.ret), last.phase >> \in ReconcileErrors
        /\ \A e \in ReconcileErrors : e[1] = Head(last.ret) => e[2] = last.phase

\* C10: when RemoveRemoteIstioComponents has issued its Deletes and one of
\* them failed with an error other than not-found, it returns an error.
C10_NoDeleteErrorSwallowed ==
    ( /\ last.op = "RemoveRemoteIstioComponents"
      /\ last.outcome = "returned"
      /\ last.deletes # <<>>
      /\ \E i \in 1..Len(last.deletes) : last.deletes[i] = "otherError" )
    => last.ret # NoErr

\* C11: a removal that finds components installed issues two Deletes, the
\* Istio resource first and the mesh gateway second; when the first reports
\* the resource absent the call still issues the second and returns nil if
\* that one succeeds, and when the second reports absent the call returns an
\* error
C11_RemoveAbsenceAsymmetry ==
    (last.op = "RemoveRemoteIstioComponents" /\ last.deletes # <<>>) =>
        /\ Len(last.deletes) = 2
        /\ last.outcome = "returned"
        /\ (last.deletes[1] = "notFound" /\ last.deletes[2] = "ok") => last.ret = NoErr
        /\ last.deletes[2] = "notFound" => last.ret # NoErr

C11_Witness ==
    /\ last.op = "RemoveRemoteIstioComponents"
    /\ last.deletes = << "notFound", "ok" >>
    /\ last.ret = NoErr

\* C12: a removal called while no mesh components are recorded as installed
\* returns nil, issues no Delete, and leaves the Cluster, its manager, cache
\* and watches, and every call in flight as they were
C12_RemoveNothingInstalledIsNoOp ==
    [][ ( /\ \E p \in Procs : RemoveRemoteIstioComponents(p)
          /\ istioConfig = Nil )
        => ( /\ last'.op = "RemoveRemoteIstioComponents"
             /\ last'.outcome = "returned"
             /\ last'.ret = NoErr
             /\ last'.deletes = <<>>
             /\ UNCHANGED << clusterVars, envVars, callVars >> ) ]_vars

C12_Witness ==
    /\ last.op = "RemoveRemoteIstioComponents"
    /\ last.outcome = "returned"
    /\ last.deletes = <<>>
    /\ istioConfig = Nil
    /\ ctrlRuntimeClient # Nil
    /\ remoteConfig # Nil

\* C13: a removal called while no Reconcile call has got as far as client
\* initialization (so none has succeeded and no client is built) returns an
\* error; it does not return nil
C13_RemoveBeforeClientReadyFails ==
    ( /\ last.op = "RemoveRemoteIstioComponents"
      /\ initClient = "fresh"
      /\ ctrlRuntimeClient = Nil )
    => (last.outcome = "returned" /\ last.ret # NoErr)

\* a Reconcile call on goroutine p passes reconcileCRDs in this step
PassesCRDs(p) == pc[p] = "reconcileCRDs" /\ pc'[p] = "initClient"

\* C14: c.remoteConfig is nil at first, every Reconcile call that passes
\* reconcileCRDs stores its remoteConfig argument there, no other step changes
\* it (a later failure of the same call does not take it back), and
\* GetRemoteConfig returns what is stored
C14_GetReturnsLatestRecorded ==
    /\ remoteConfig = Nil
    /\ [][ /\ \A p \in Procs : PassesCRDs(p) => remoteConfig' = argRemote'[p]
           /\ (\A p \in Procs : ~PassesCRDs(p)) => remoteConfig' = remoteConfig
           /\ (\E p \in Procs : GetRemoteConfig(p)) =>
                  (last'.op = "GetRemoteConfig" /\ last'.got = remoteConfig) ]_vars

C14_Witness ==
    /\ last.op = "GetRemoteConfig"
    /\ last.got = "r1"
    /\ clientInitFailed
    /\ mgr = Nil

\* C15: the installed watch lets Create events through and no others, and
\* for every event it lets through, whatever the namespace, it enqueues
\* exactly one request, which names (Name and Namespace) the remoteConfig
\* recorded while the event is handled
C15_CreateOnlyOneFixedTrigger ==
    event.outcome \in {"dropped", "enqueued", "panicked"} =>
        /\ event.accepted = (event.kind = "Create")
        /\ ~event.accepted => event.requests = <<>>
        /\ event.accepted =>
             /\ event.outcome = "enqueued"
             /\ \E cfg \in {event.nameCfg, event.nsCfg} :
                    event.requests = << RequestFor(cfg) >>

\* C16: whenever the initClient Once is consumed the manager, the client and
\* the dynamic client are all non-nil, and whenever the initInformers Once is
\* consumed the namespace watch has been registered and ctrl.Watch returned
\* nil
C16_ConsumedOnceGuardsUsableResource ==
    /\ initClient = "done" =>
           (mgr # Nil /\ ctrlRuntimeClient # Nil /\ dynamicClient # Nil)
    /\ initInformers = "done" => (watchCount >= 1 /\ WatchInstalled)

\* C17: every step that enters initK8sInformers is taken while client
\* initialization has completed without error and the manager exists
C17_WatchInitOnlyWhenClientReady ==
    [][ (\E p \in Procs : InitInformersRun(p)) => (ClientReady /\ mgr # Nil) ]_vars

\* C18: every step that derives the clients, installs the watch or runs a
\* pipeline function is taken after the cache has completed its first sync
C18_NothingGoesOnBeforeCacheSync ==
    [][ (\E p \in Procs : \/ InitClientFinish(p)
                          \/ InitInformersRun(p)
                          \/ InitInformersWatch(p)
                          \/ InitInformersFinish(p)
                          \/ PipelineStep(p)) => cacheSynced ]_vars

\* reconcileCRDs of a Reconcile call returns an error in this step
FailsCRDs == \E p \in Procs : ReconcileCRDsWith(p, FALSE)

\* C19: a Reconcile call whose reconcileCRDs fails returns an error, has run
\* no pipeline function, and leaves c.remoteConfig, the manager and the
\* clients, both Once, the watches and every other call as they were
C19_FailedCRDsChangesNothing ==
    [][ FailsCRDs =>
            /\ last'.op = "Reconcile"
            /\ last'.outcome = "returned"
            /\ last'.ret # NoErr
            /\ last'.ran = <<>>
            /\ UNCHANGED << clusterVars, envVars, ran, passed >> ]_vars

C19_Witness ==
    /\ last.op = "Reconcile"
    /\ last.phase = "reconcileCRDs"
    /\ last.ret # NoErr
    /\ ~last.beganFresh
    /\ remoteConfig = "r1"
    /\ dynamicClient # Nil
    /\ \E p \in Procs : pc[p] = "initInformers"

\* C20: every pipeline function called by a Reconcile call receives the
\* remoteConfig and istio arguments of that same call, whatever
\* c.remoteConfig holds by then
C20_StepsReceiveOwnArguments ==
    /\ \A p \in Procs :
           /\ ran[p] # <<>> => passed[p] = << argRemote[p], argIstio[p] >>
           /\ ran[p] = <<>> => passed[p] = <<>>
    /\ (last.op = "Reconcile" /\ last.ran # <<>>) => last.ownArgs

C20_Witness ==
    \E p \in Procs :
        /\ pc[p] = "pipeline"
        /\ ran[p] # <<>>
        /\ passed[p][1] = "r1"
        /\ remoteConfig # "r1"

====
